---------------------------- MODULE Spec2Model ----------------------------
(***************************************************************************)
(* Model of the crisis detector: the ingestion pipeline of analyzer.py     *)
(* (scan_feed, get_coordinates, compute_severity, detect_category,         *)
(* extract_event_keywords, cleanup_old_events) over the tables of          *)
(* config.py and the store of database.py, and the clustering of           *)
(* clustering.py (jaccard, titles_share_event, is_same_event,              *)
(* cluster_events).                                                        *)
(*                                                                         *)
(* Conventions.                                                            *)
(*  - A Python str whose characters matter (titles, texts, keywords) is a  *)
(*    sequence of one-character strings, so that `kw in text`, str.lower   *)
(*    and the casualty regular expression work on characters. A str that   *)
(*    is only compared for equality (category, location and source names,  *)
(*    links, ids) is a TLA+ string.                                        *)
(*  - A float with two decimals (weights, severities) is the integer       *)
(*    number of hundredths: weight 0.6 is 60, severity 4.0 is 400.         *)
(*  - Timestamps of the pipeline are whole days, timestamps of clustering  *)
(*    inputs are whole minutes.                                            *)
(*  - An Optional[float] is a sequence of at most one number: None is      *)
(*    <<>>, the float x is <<x>>.                                          *)
(***************************************************************************)
EXTENDS Integers, Sequences, FiniteSets, TLC

VARIABLES
  \* ---- CrisisAnalyzer.scan_feed and the database session
  pc,                 \* "idle" | "fetch" | "entries": position inside scan_feed
  src,                \* index into RSS_FEEDS of the source being scanned
  entriesLeft,        \* entries of the current feed not yet iterated
  new_event_counter,  \* scan_feed's local counter
  events,             \* committed rows of table events
  pending,            \* CrisisEvent rows added to the session, not yet committed
  location_cache,     \* committed rows of table location_cache
  now,                \* datetime.utcnow(), in days
  ticks,              \* how often the clock advanced (bounded)
  lastCall,           \* record of the latest get_coordinates call
  lastStep,           \* record of the latest scan_feed step
  returned,           \* value returned by the latest finished scan_feed
  runTitles,          \* titles of the entries iterated so far in this run
  runAccepted,        \* ids of the events added so far in this run
  runFailed,          \* whether a source of this run raised
  \* ---- clustering.cluster_events
  rows,               \* the DataFrame rows, in order
  ri,                 \* index of the next row of the iteration
  clusters,           \* the clusters built so far
  clusterPc,          \* "loop": in cluster_events; "built": build_clustered_df returned
  clustered_df,       \* the overview rows build_clustered_df returned
  \* ---- CrisisAnalyzer.compute_severity
  sevTitle, sevText, sevWeight,  \* the arguments
  sevDone,            \* whether the call has returned
  sevCasualty,        \* what the casualty loop added to score
  sevResult           \* the returned severity, in hundredths

scanVars == <<pc, src, entriesLeft, new_event_counter, events, pending,
              location_cache, now, ticks, lastCall, lastStep, returned,
              runTitles, runAccepted, runFailed>>
clusterVars == <<rows, ri, clusters, clusterPc, clustered_df>>
sevVars == <<sevTitle, sevText, sevWeight, sevDone, sevCasualty, sevResult>>
vars == <<scanVars, clusterVars, sevVars>>

None == <<>>

-----------------------------------------------------------------------------
(* Bounds of the model.                                                    *)

\* sources of RSS_FEEDS scanned in a run (a prefix of the table)
MaxSources == 3
\* entries a fetched feed holds at most
MaxEntries == 2
\* how often the clock advances between runs
MaxTicks == 1
\* rows of the DataFrame given to cluster_events
MaxReports == 3
\* phrases concatenated into a text given to compute_severity
MaxPhrases == 2

-----------------------------------------------------------------------------
(* Strings.                                                                *)

UpperChars == <<"A","B","C","D","E","F","G","H","I","J","K","L","M",
                "N","O","P","Q","R","S","T","U","V","W","X","Y","Z">>
LowerChars == <<"a","b","c","d","e","f","g","h","i","j","k","l","m",
                "n","o","p","q","r","s","t","u","v","w","x","y","z">>

\* str.lower() of one character
lowerChar(c) ==
  IF \E i \in 1..26 : UpperChars[i] = c
    THEN LowerChars[CHOOSE i \in 1..26 : UpperChars[i] = c]
    ELSE c

\* str.lower()
lower(s) == [i \in 1..Len(s) |-> lowerChar(s[i])]

\* kw in text  (substring containment)
Contains(text, kw) ==
  \E i \in 0..(Len(text) - Len(kw)) : SubSeq(text, i + 1, i + Len(kw)) = kw

\* the elements of a list, as a set
ToSet(s) == {s[i] : i \in 1..Len(s)}

RECURSIVE SumSeq(_)
\* sum of a list of numbers
SumSeq(s) == IF s = <<>> THEN 0 ELSE s[1] + SumSeq(Tail(s))

RECURSIVE Concat(_)
\* concatenation of a list of strings
Concat(ss) == IF ss = <<>> THEN <<>> ELSE ss[1] \o Concat(Tail(ss))

-----------------------------------------------------------------------------
(* config.py                                                               *)

ANALYZER_SEVERITY_THRESHOLD == 400

EVENT_CATEGORIES ==
  <<
    [name |-> "Earthquake", keywords |-> <<
       <<"e","a","r","t","h","q","u","a","k","e">>,  \* earthquake
       <<"a","f","t","e","r","s","h","o","c","k">>,  \* aftershock
       <<"t","r","e","m","o","r">>,  \* tremor
       <<"s","e","i","s","m","i","c">>,  \* seismic
       <<"m","a","g","n","i","t","u","d","e">>,  \* magnitude
       <<"r","i","c","h","t","e","r">>   \* richter
    >>],
    [name |-> "Flood", keywords |-> <<
       <<"f","l","o","o","d">>,  \* flood
       <<"f","l","o","o","d","i","n","g">>,  \* flooding
       <<"i","n","u","n","d","a","t","i","o","n">>,  \* inundation
       <<"o","v","e","r","f","l","o","w">>,  \* overflow
       <<"s","u","b","m","e","r","g","e","d">>   \* submerged
    >>],
    [name |-> "Fire", keywords |-> <<
       <<"f","i","r","e">>,  \* fire
       <<"w","i","l","d","f","i","r","e">>,  \* wildfire
       <<"b","l","a","z","e">>,  \* blaze
       <<"b","u","r","n","i","n","g">>   \* burning
    >>],
    [name |-> "Explosion", keywords |-> <<
       <<"e","x","p","l","o","s","i","o","n">>,  \* explosion
       <<"b","l","a","s","t">>,  \* blast
       <<"d","e","t","o","n","a","t","i","o","n">>,  \* detonation
       <<"e","x","p","l","o","s","i","v","e">>   \* explosive
    >>],
    [name |-> "Shooting", keywords |-> <<
       <<"s","h","o","o","t","i","n","g">>,  \* shooting
       <<"g","u","n","m","a","n">>,  \* gunman
       <<"s","h","o","t","s"," ","f","i","r","e","d">>,  \* shots fired
       <<"f","i","r","e","a","r","m">>   \* firearm
    >>],
    [name |-> "Terrorism", keywords |-> <<
       <<"t","e","r","r","o","r","i","s","t"," ","a","t","t","a","c","k">>,  \* terrorist attack
       <<"s","u","i","c","i","d","e"," ","b","o","m","b","i","n","g">>,  \* suicide bombing
       <<"t","e","r","r","o","r">>,  \* terror
       <<"e","x","t","r","e","m","i","s","t">>   \* extremist
    >>],
    [name |-> "War", keywords |-> <<
       <<"c","i","v","i","l"," ","w","a","r">>,  \* civil war
       <<"c","o","n","f","l","i","c","t">>,  \* conflict
       <<"b","a","t","t","l","e">>,  \* battle
       <<"f","i","g","h","t","i","n","g">>,  \* fighting
       <<"i","n","v","a","s","i","o","n">>   \* invasion
    >>],
    [name |-> "Epidemic", keywords |-> <<
       <<"e","p","i","d","e","m","i","c">>,  \* epidemic
       <<"p","a","n","d","e","m","i","c">>,  \* pandemic
       <<"o","u","t","b","r","e","a","k">>,  \* outbreak
       <<"v","i","r","u","s">>,  \* virus
       <<"d","i","s","e","a","s","e">>   \* disease
    >>],
    [name |-> "Hurricane", keywords |-> <<
       <<"h","u","r","r","i","c","a","n","e">>,  \* hurricane
       <<"t","y","p","h","o","o","n">>,  \* typhoon
       <<"c","y","c","l","o","n","e">>,  \* cyclone
       <<"s","t","o","r","m">>   \* storm
    >>],
    [name |-> "Cyber", keywords |-> <<
       <<"c","y","b","e","r","a","t","t","a","c","k">>,  \* cyberattack
       <<"h","a","c","k">>,  \* hack
       <<"d","a","t","a"," ","b","r","e","a","c","h">>,  \* data breach
       <<"r","a","n","s","o","m","w","a","r","e">>   \* ransomware
    >>],
    [name |-> "Protest", keywords |-> <<
       <<"r","i","o","t">>,  \* riot
       <<"v","i","o","l","e","n","t"," ","p","r","o","t","e","s","t">>,  \* violent protest
       <<"c","l","a","s","h">>,  \* clash
       <<"d","e","m","o","n","s","t","r","a","t","i","o","n">>   \* demonstration
    >>],
    [name |-> "Kidnapping", keywords |-> <<
       <<"k","i","d","n","a","p","p","i","n","g">>,  \* kidnapping
       <<"h","o","s","t","a","g","e">>,  \* hostage
       <<"a","b","d","u","c","t","i","o","n">>   \* abduction
    >>],
    [name |-> "AirCrash", keywords |-> <<
       <<"p","l","a","n","e"," ","c","r","a","s","h">>,  \* plane crash
       <<"a","i","r","c","r","a","f","t"," ","c","r","a","s","h">>,  \* aircraft crash
       <<"a","v","i","a","t","i","o","n"," ","a","c","c","i","d","e","n","t">>,  \* aviation accident
       <<"a","i","r","l","i","n","e","r">>,  \* airliner
       <<"f","l","i","g","h","t"," ","c","r","a","s","h">>,  \* flight crash
       <<"c","r","a","s","h","e","d"," ","s","h","o","r","t","l","y"," ","a","f","t","e","r"," ","t","a","k","e","o","f","f">>,  \* crashed shortly after takeoff
       <<"h","e","l","i","c","o","p","t","e","r"," ","c","r","a","s","h">>   \* helicopter crash
    >>]
  >>

SEVERITY_WEIGHTS ==
  <<
    [kw |-> <<"t","s","u","n","a","m","i">>, w |-> 10],  \* tsunami
    [kw |-> <<"n","u","c","l","e","a","r">>, w |-> 10],  \* nuclear
    [kw |-> <<"g","e","n","o","c","i","d","e">>, w |-> 10],  \* genocide
    [kw |-> <<"m","a","s","s","a","c","r","e">>, w |-> 10],  \* massacre
    [kw |-> <<"t","e","r","r","o","r","i","s","t"," ","a","t","t","a","c","k">>, w |-> 10],  \* terrorist attack
    [kw |-> <<"s","u","i","c","i","d","e"," ","b","o","m","b","i","n","g">>, w |-> 10],  \* suicide bombing
    [kw |-> <<"e","a","r","t","h","q","u","a","k","e">>, w |-> 8],  \* earthquake
    [kw |-> <<"e","x","p","l","o","s","i","o","n">>, w |-> 8],  \* explosion
    [kw |-> <<"w","i","l","d","f","i","r","e">>, w |-> 8],  \* wildfire
    [kw |-> <<"h","u","r","r","i","c","a","n","e">>, w |-> 8],  \* hurricane
    [kw |-> <<"f","l","o","o","d">>, w |-> 7],  \* flood
    [kw |-> <<"l","a","n","d","s","l","i","d","e">>, w |-> 7],  \* landslide
    [kw |-> <<"a","i","r"," ","c","r","a","s","h">>, w |-> 9],  \* air crash
    [kw |-> <<"p","l","a","n","e"," ","c","r","a","s","h">>, w |-> 9],  \* plane crash
    [kw |-> <<"d","e","a","d">>, w |-> 3],  \* dead
    [kw |-> <<"k","i","l","l","e","d">>, w |-> 3],  \* killed
    [kw |-> <<"f","a","t","a","l">>, w |-> 3],  \* fatal
    [kw |-> <<"i","n","j","u","r","e","d">>, w |-> 2],  \* injured
    [kw |-> <<"c","a","s","u","a","l","t","i","e","s">>, w |-> 3],  \* casualties
    [kw |-> <<"m","i","s","s","i","n","g">>, w |-> 3],  \* missing
    [kw |-> <<"e","v","a","c","u","a","t","i","o","n">>, w |-> 4],  \* evacuation
    [kw |-> <<"c","o","l","l","a","p","s","e","d">>, w |-> 4],  \* collapsed
    [kw |-> <<"d","e","s","t","r","o","y","e","d">>, w |-> 4],  \* destroyed
    [kw |-> <<"m","a","s","s","i","v","e">>, w |-> 2],  \* massive
    [kw |-> <<"c","a","t","a","s","t","r","o","p","h","i","c">>, w |-> 3],  \* catastrophic
    [kw |-> <<"e","m","e","r","g","e","n","c","y">>, w |-> 3],  \* emergency
    [kw |-> <<"s","t","a","t","e"," ","o","f"," ","e","m","e","r","g","e","n","c","y">>, w |-> 4],  \* state of emergency
    [kw |-> <<"t","h","o","u","s","a","n","d","s">>, w |-> 3],  \* thousands
    [kw |-> <<"m","i","l","l","i","o","n","s">>, w |-> 5],  \* millions
    [kw |-> <<"c","r","i","t","i","c","a","l">>, w |-> 3],  \* critical
    [kw |-> <<"u","r","g","e","n","t">>, w |-> 2]   \* urgent
  >>

CONTEXT_KEYWORDS ==
  <<
    [kw |-> <<"c","a","t","a","s","t","r","o","p","h","i","c">>, w |-> 3],  \* catastrophic
    [kw |-> <<"d","e","a","d","l","y">>, w |-> 3],  \* deadly
    [kw |-> <<"s","t","a","t","e"," ","o","f"," ","e","m","e","r","g","e","n","c","y">>, w |-> 4],  \* state of emergency
    [kw |-> <<"t","h","o","u","s","a","n","d","s">>, w |-> 3],  \* thousands
    [kw |-> <<"m","i","l","l","i","o","n","s">>, w |-> 5],  \* millions
    [kw |-> <<"m","i","n","o","r">>, w |-> -2],  \* minor
    [kw |-> <<"s","m","a","l","l">>, w |-> -2],  \* small
    [kw |-> <<"n","o"," ","c","a","s","u","a","l","t","i","e","s">>, w |-> -3]   \* no casualties
  >>

RSS_FEEDS ==
  <<
    [name |-> "Reddit-WorldNews", weight |-> 60],
    [name |-> "Reddit-Disaster", weight |-> 60],
    [name |-> "AlJazeera", weight |-> 80],
    [name |-> "BBC-World", weight |-> 90],
    [name |-> "USGS-Quakes", weight |-> 100],
    [name |-> "Reuters", weight |-> 95],
    [name |-> "UN-News", weight |-> 100],
    [name |-> "WHO", weight |-> 80]
  >>

\* the RSS_FEEDS entries a run of the model scans
Sources == SubSeq(RSS_FEEDS, 1, IF MaxSources < Len(RSS_FEEDS) THEN MaxSources ELSE Len(RSS_FEEDS))

-----------------------------------------------------------------------------
(* analyzer.py: scoring                                                    *)

\* [kw for kws in EVENT_CATEGORIES.values() for kw in kws]
event_keywords_flat ==
  Concat([i \in 1..Len(EVENT_CATEGORIES) |-> EVENT_CATEGORIES[i].keywords])

DigitChars == <<"0","1","2","3","4","5","6","7","8","9">>
IsDigit(c) == \E d \in 1..10 : DigitChars[d] = c
DigitValue(c) == (CHOOSE d \in 1..10 : DigitChars[d] = c) - 1
\* \s of the regular expression
IsSpace(c) == c \in {" ", "\t", "\n", "\r", "\f"}

\* the alternation of the casualty pattern, in its order
CasualtyTerms ==
  << <<"d","e","a","d">>, <<"k","i","l","l","e","d">>, <<"o","f","i","a","r">>, <<"z","a","b","i","t","y","c","h">>, <<"r","a","n","n">>,
     <<"p","o","s","z","k","o","d","o","w","a","n","y","c","h">>, <<"c","a","s","u","a","l","t","i","e","s">>, <<"i","n","j","u","r","e","d">> >>

RECURSIVE int(_)
\* int(num_str) for a string of decimal digits
int(num_str) ==
  IF num_str = <<>> THEN 0
  ELSE 10 * int(SubSeq(num_str, 1, Len(num_str) - 1)) + DigitValue(num_str[Len(num_str)])

\* whether text holds `word` at position p (1-based)
StartsAt(text, p, word) ==
  /\ p + Len(word) - 1 <= Len(text)
  /\ SubSeq(text, p, p + Len(word) - 1) = word

RECURSIVE SkipSpaces(_, _)
\* \s* : the position after the whitespace that starts at p
SkipSpaces(text, p) ==
  IF p <= Len(text) /\ IsSpace(text[p]) THEN SkipSpaces(text, p + 1) ELSE p

\* (\d{1,4})\s*(dead|...) tried at position p with k digits: the position
\* after the match, or 0 when it does not match
MatchWith(text, p, k) ==
  IF /\ p + k - 1 <= Len(text)
     /\ \A j \in p..(p + k - 1) : IsDigit(text[j])
  THEN LET q == SkipSpaces(text, p + k)
           alts == {a \in 1..Len(CasualtyTerms) : StartsAt(text, q, CasualtyTerms[a])}
       IN IF alts = {} THEN 0
          ELSE LET a == CHOOSE x \in alts : \A y \in alts : x <= y
               IN q + Len(CasualtyTerms[a])
  ELSE 0

\* the match of the pattern at position p: \d{1,4} is greedy and backtracks,
\* so the longest digit count that lets the rest match wins.
\* [k |-> digits taken, end |-> position after the match], k = 0: no match
MatchAt(text, p) ==
  LET ks == {k \in 1..4 : MatchWith(text, p, k) # 0}
  IN IF ks = {} THEN [k |-> 0, end |-> 0]
     ELSE LET k == CHOOSE x \in ks : \A y \in ks : y <= x
          IN [k |-> k, end |-> MatchWith(text, p, k)]

RECURSIVE FindAllFrom(_, _)
\* re.findall(pattern, text): the num_str group of each non-overlapping
\* match, scanning left to right from position p
FindAllFrom(text, p) ==
  IF p > Len(text) THEN <<>>
  ELSE LET m == MatchAt(text, p)
       IN IF m.k = 0 THEN FindAllFrom(text, p + 1)
          ELSE <<SubSeq(text, p, p + m.k - 1)>> \o FindAllFrom(text, m.end)

victims_match(text) == FindAllFrom(text, 1)

\* the range table of the casualty loop, wrong at the +8 boundary
VictimDeltaLow(num) ==
  IF num >= 50 THEN 8
  ELSE IF num >= 20 THEN 5
  ELSE IF num >= 5 THEN 3
  ELSE 0

\* the range table of the casualty loop
VictimDelta(num) ==
  IF num >= 100 THEN 8
  ELSE IF num >= 20 THEN 5
  ELSE IF num >= 5 THEN 3
  ELSE 0

\* what the loop over victims_match adds to score (text already lower-cased)
CasualtyScore(text) ==
  LET ms == victims_match(text)
  IN SumSeq([i \in 1..Len(ms) |-> VictimDelta(int(ms[i]))])

\* sum of the weights of the table's keywords found in text
TableScore(table, text) ==
  SumSeq([i \in 1..Len(table) |-> IF Contains(text, table[i].kw) THEN table[i].w ELSE 0])

\* score before the multiplication by source_weight
RawScore(title, text) ==
  LET t == lower(title)
      x == lower(text)
  IN TableScore(SEVERITY_WEIGHTS, x)
     + TableScore(CONTEXT_KEYWORDS, x)
     + (IF \E i \in 1..Len(event_keywords_flat) : Contains(t, event_keywords_flat[i])
          THEN 2 ELSE 0)
     + CasualtyScore(x)

\* round(score * source_weight, 2), in hundredths; source_weight in hundredths
compute_severity(title, text, source_weight) == RawScore(title, text) * source_weight

\* number of the category's keywords found in text
CategoryScore(i, text) ==
  Cardinality({j \in 1..Len(EVENT_CATEGORIES[i].keywords) :
                 Contains(text, EVENT_CATEGORIES[i].keywords[j])})

\* max(scores, key=scores.get) returns the first category of maximal score
detect_category(text) ==
  LET x == lower(text)
      n == Len(EVENT_CATEGORIES)
      best == CHOOSE i \in 1..n :
                /\ \A j \in 1..n : CategoryScore(j, x) <= CategoryScore(i, x)
                /\ \A j \in 1..(i - 1) : CategoryScore(j, x) < CategoryScore(i, x)
  IN IF CategoryScore(best, x) = 0 THEN "General" ELSE EVENT_CATEGORIES[best].name

\* list(set(out)): the category keywords found in text, as a set
extract_event_keywords(text) ==
  LET x == lower(text)
  IN {kw \in ToSet(event_keywords_flat) : Contains(x, kw)}

\* hashlib.md5(title.encode('utf-8')).hexdigest() on the titles of the model
_generate_id(title) ==
  CASE title = <<"S","t","o","r","m"," ","u","p","d","a","t","e">> -> "244f76067203901ca72ecdaeaae8708b"
    [] title = <<"E","a","r","t","h","q","u","a","k","e"," ","i","n"," ","J","a","p","a","n">> -> "129ad52609c262644f45504e825d3162"

-----------------------------------------------------------------------------
(* database.py: the rows of the two tables, and the session.               *)
(* The session is the default one of get_db_session (autoflush on): a      *)
(* query sees the rows added and not yet committed.                        *)

\* the rows a query of table events sees
Stored == events \cup pending

\* the dedup query of a session that does not flush before a query: it
\* sees the committed rows only
SeenCommittedOnly(entry_id) == \E r \in events : r.id = entry_id

\* session.query(CrisisEvent).filter_by(id=entry_id).first() is not None
Seen(entry_id) == \E r \in Stored : r.id = entry_id

\* the cache query filtering on a column that never matches: no row found
CacheQueryMiss(cache, location_name) == {}

\* session.query(LocationCache).filter_by(name=location_name).first():
\* the rows of that exact name (at most one, name is the primary key)
CacheQuery(cache, location_name) == {c \in cache : c.name = location_name}

-----------------------------------------------------------------------------
(* analyzer.py: get_coordinates                                            *)

\* what the geocoder may answer to geocode(name, timeout=10)
GeoCoords == {<<36, 138>>, <<35, 139>>}
GeoOutcomes ==
  {[kind |-> "ok", latitude |-> <<c[1]>>, longitude |-> <<c[2]>>] : c \in GeoCoords}
    \cup {[kind |-> k, latitude |-> None, longitude |-> None] :
            k \in {"none", "timeout", "error"}}
\* the outcome recorded when the geocoder is not called
NotCalled == [kind |-> "notcalled", latitude |-> None, longitude |-> None]

\* the first test of get_coordinates, without the "Unknown" case
ShortCircuitEmptyOnly(location_name) == location_name = ""

\* not location_name or location_name == "Unknown"
ShortCircuit(location_name) == location_name = "" \/ location_name = "Unknown"

\* the try block with errors of the geocoder left to propagate
GeocodeAndStoreRaising(cache, location_name, geo) ==
  IF geo.kind = "ok"
    THEN [latitude |-> geo.latitude, longitude |-> geo.longitude,
          cache |-> cache \cup {[name |-> location_name, latitude |-> geo.latitude,
                                 longitude |-> geo.longitude]},
          read |-> TRUE, geo |-> geo, commit |-> TRUE, raised |-> FALSE]
    ELSE [latitude |-> None, longitude |-> None, cache |-> cache,
          read |-> TRUE, geo |-> geo, commit |-> FALSE,
          raised |-> geo.kind \in {"timeout", "error"}]

\* the try block: geocode, and on an answer add the cache row and commit;
\* no answer, a timeout or any exception gives (None, None)
GeocodeAndStore(cache, location_name, geo) ==
  IF geo.kind = "ok"
    THEN [latitude |-> geo.latitude, longitude |-> geo.longitude,
          cache |-> cache \cup {[name |-> location_name, latitude |-> geo.latitude,
                                 longitude |-> geo.longitude]},
          read |-> TRUE, geo |-> geo, commit |-> TRUE, raised |-> FALSE]
    ELSE [latitude |-> None, longitude |-> None, cache |-> cache,
          read |-> TRUE, geo |-> geo, commit |-> FALSE, raised |-> FALSE]

\* get_coordinates(location_name) on the cache rows `cache`, the geocoder
\* answering `geo` if it is called. latitude, longitude: the returned pair;
\* cache: the rows afterwards; read: whether the cache was queried; geo: the
\* geocoder's answer, NotCalled if it was not called; commit: whether the
\* session was committed; raised: whether an exception left the method
get_coordinates(cache, location_name, geo) ==
  IF ShortCircuit(location_name)
    THEN [latitude |-> None, longitude |-> None, cache |-> cache,
          read |-> FALSE, geo |-> NotCalled, commit |-> FALSE, raised |-> FALSE]
    ELSE LET cached == CacheQuery(cache, location_name)
         IN IF cached # {}
              THEN LET c == CHOOSE x \in cached : TRUE
                   IN [latitude |-> c.latitude, longitude |-> c.longitude,
                       cache |-> cache, read |-> TRUE, geo |-> NotCalled,
                       commit |-> FALSE, raised |-> FALSE]
              ELSE GeocodeAndStore(cache, location_name, geo)

\* the record of a call: its argument, the cache rows before it, its result
CallRecord(cache, location_name, g) ==
  [called |-> TRUE, name |-> location_name, before |-> cache, result |-> g]
NoCall ==
  [called |-> FALSE, name |-> "", before |-> {},
   result |-> [latitude |-> None, longitude |-> None, cache |-> {}, read |-> FALSE,
               geo |-> NotCalled, commit |-> FALSE, raised |-> FALSE]]

-----------------------------------------------------------------------------
(* The feeds: what feedparser.parse may return.                            *)

\* an entry: attrs names the attributes the entry has among title and
\* link (reading a missing one raises); summary and description are ''
\* when absent (entry.get(..., ''))
FeedEntries ==
  { [title |-> <<"S","t","o","r","m"," ","u","p","d","a","t","e">>, summary |-> <<"O","n","e"," ","k","i","l","l","e","d">>, description |-> <<>>, link |-> "http://n/2", attrs |-> {"title", "link"}],
    [title |-> <<"S","t","o","r","m"," ","u","p","d","a","t","e">>, summary |-> <<"5","0"," ","k","i","l","l","e","d">>, description |-> <<>>, link |-> "http://n/3", attrs |-> {"title", "link"}],
    [title |-> <<"E","a","r","t","h","q","u","a","k","e"," ","i","n"," ","J","a","p","a","n">>, summary |-> <<"1","5","0"," ","d","e","a","d">>, description |-> <<>>, link |-> "http://n/4", attrs |-> {"title", "link"}],
    [title |-> <<"E","a","r","t","h","q","u","a","k","e"," ","i","n"," ","J","a","p","a","n">>, summary |-> <<"1","5","0"," ","d","e","a","d">>, description |-> <<>>, link |-> "", attrs |-> {"title"}],
    [title |-> <<>>, summary |-> <<>>, description |-> <<>>, link |-> "http://n/6", attrs |-> {"link"}] }

TitledEntries == {e \in FeedEntries : "title" \in e.attrs}

\* f"{entry.title}, {entry.get('summary', '')} {entry.get('description', '')}"
EntryText(e) == e.title \o <<","," ">> \o e.summary \o <<" ">> \o e.description

\* what extract_location may return: the first GPE entity, or "Unknown"
LocationNames == {"Unknown", "Japan"}
\* the names a direct caller may pass to get_coordinates
CallNames == {"", "Unknown", "Japan", "japan"}

\* the scores of the model's entries, computed once
EntryRawScore == [e \in TitledEntries |-> RawScore(e.title, EntryText(e))]
EntryCategory == [e \in TitledEntries |-> detect_category(EntryText(e))]
EntryKeywords == [e \in TitledEntries |-> extract_event_keywords(EntryText(e))]
EntryId == [e \in TitledEntries |-> _generate_id(e.title)]

\* compute_severity(entry.title, text, config["weight"]) of entry e in source s
EntrySeverity(e, s) == EntryRawScore[e] * Sources[s].weight

\* the threshold gate, wrongly letting the threshold itself pass
AboveThresholdOrEqual(severity) == severity >= ANALYZER_SEVERITY_THRESHOLD

\* severity > ANALYZER_SEVERITY_THRESHOLD
AboveThreshold(severity) == severity > ANALYZER_SEVERITY_THRESHOLD

\* CrisisEvent(...) as built by scan_feed (free_keywords, the output of the
\* NLP model, is left out)
NewEvent(e, s, loc_name, lat, lon) ==
  [id |-> EntryId[e], title |-> e.title, source |-> Sources[s].name,
   published_at |-> now, severity_score |-> EntrySeverity(e, s),
   category |-> EntryCategory[e], link |-> e.link, location |-> loc_name,
   latitude |-> lat, longitude |-> lon, event_keywords |-> EntryKeywords[e]]

RetentionDays == 30
\* the clock advances by more than the retention period
TickDays == RetentionDays + 1

\* cleanup_old_events: the rows that survive the deletion
AfterCleanup(rs, days) == {r \in rs : ~(r.published_at < now - days)}

-----------------------------------------------------------------------------
(* analyzer.py: scan_feed, one action per step of its two loops.           *)

\* the record of a step: what it was, and for a step on an entry the
\* entry's title and link, its severity, whether a row of its id was
\* stored before the step and whether an entry of its title was iterated
\* earlier in the run
StepRecord(op, s, title, link, severity, wasStored, seenInRun) ==
  [op |-> op, src |-> s, title |-> title, link |-> link, severity |-> severity,
   wasStored |-> wasStored, seenInRun |-> seenInRun]
PlainStep(op, s) == StepRecord(op, s, <<>>, "", 0, FALSE, FALSE)
EntryStep(op, e, sev) ==
  StepRecord(op, src, e.title, e.link, sev,
             \E r \in Stored : r.title = e.title, e.title \in runTitles)

ScanInit ==
  /\ pc = "idle" /\ src = 0 /\ entriesLeft = 0 /\ new_event_counter = 0
  /\ events = {} /\ pending = {} /\ location_cache = {}
  /\ now = 0 /\ ticks = 0
  /\ lastCall = NoCall /\ lastStep = PlainStep("init", 0)
  /\ returned = 0
  /\ runTitles = {} /\ runAccepted = {} /\ runFailed = FALSE

\* what an exception in the try block of a source does, the exception
\* leaving scan_feed: the run ends there, nothing is committed or returned
SourceFailedAbort ==
  /\ pc' = "idle"
  /\ src' = 0
  /\ entriesLeft' = 0
  /\ runFailed' = TRUE

\* what an exception in the try block of a source does: it is logged and the
\* loop goes on with the next source
SourceFailed ==
  /\ pc' = "fetch"
  /\ src' = src + 1
  /\ entriesLeft' = 0
  /\ runFailed' = TRUE

\* scan_feed is called: new_event_counter = 0, first source
StartRun ==
  /\ pc = "idle"
  /\ pc' = "fetch" /\ src' = 1 /\ entriesLeft' = 0 /\ new_event_counter' = 0
  /\ runTitles' = {} /\ runAccepted' = {} /\ runFailed' = FALSE
  /\ lastCall' = NoCall /\ lastStep' = PlainStep("start", 0)
  /\ UNCHANGED <<events, pending, location_cache, now, ticks, returned>>
  /\ UNCHANGED <<clusterVars, sevVars>>

\* feedparser.parse(config['url']) returns a feed of n entries
FetchFeed ==
  /\ pc = "fetch" /\ src <= Len(Sources)
  /\ \E n \in 0..MaxEntries : entriesLeft' = n
  /\ pc' = "entries"
  /\ lastCall' = NoCall /\ lastStep' = PlainStep("fetch", src)
  /\ UNCHANGED <<src, new_event_counter, events, pending, location_cache, now,
                 ticks, returned, runTitles, runAccepted, runFailed>>
  /\ UNCHANGED <<clusterVars, sevVars>>

\* feedparser.parse (or the lookup of the source's url) raises
FetchRaises ==
  /\ pc = "fetch" /\ src <= Len(Sources)
  /\ SourceFailed
  /\ lastCall' = NoCall /\ lastStep' = PlainStep("raise", src)
  /\ UNCHANGED <<new_event_counter, events, pending, location_cache, now,
                 ticks, returned, runTitles, runAccepted>>
  /\ UNCHANGED <<clusterVars, sevVars>>

\* the loop over feed.entries is exhausted: next source
NextSource ==
  /\ pc = "entries" /\ entriesLeft = 0
  /\ pc' = "fetch" /\ src' = src + 1
  /\ lastCall' = NoCall /\ lastStep' = PlainStep("next", src)
  /\ UNCHANGED <<entriesLeft, new_event_counter, events, pending, location_cache,
                 now, ticks, returned, runTitles, runAccepted, runFailed>>
  /\ UNCHANGED <<clusterVars, sevVars>>

\* an entry without title (entry.title raises), or a failure of the NLP
\* model in extract_free_keywords or extract_location on an entry that is
\* not skipped: the exception ends the source
EntryRaises ==
  /\ pc = "entries" /\ entriesLeft > 0
  /\ \E e \in FeedEntries :
       /\ IF "title" \in e.attrs THEN ~Seen(EntryId[e]) ELSE TRUE
       /\ runTitles' = IF "title" \notin e.attrs THEN runTitles ELSE runTitles \cup {e.title}
       /\ lastStep' = IF "title" \notin e.attrs THEN PlainStep("raise", src)
                      ELSE EntryStep("raise", e, EntrySeverity(e, src))
  /\ SourceFailed
  /\ lastCall' = NoCall
  /\ UNCHANGED <<new_event_counter, events, pending, location_cache, now,
                 ticks, returned, runAccepted>>
  /\ UNCHANGED <<clusterVars, sevVars>>

\* an entry whose id is stored already: continue
SkipSeen ==
  /\ pc = "entries" /\ entriesLeft > 0
  /\ \E e \in TitledEntries :
       /\ Seen(EntryId[e])
       /\ runTitles' = runTitles \cup {e.title}
       /\ lastStep' = EntryStep("skip", [e EXCEPT !.link = ""], 0)
  /\ entriesLeft' = entriesLeft - 1
  /\ lastCall' = NoCall
  /\ UNCHANGED <<pc, src, new_event_counter, events, pending, location_cache,
                 now, ticks, returned, runAccepted, runFailed>>
  /\ UNCHANGED <<clusterVars, sevVars>>

\* an entry whose severity does not pass the threshold: nothing is stored
Discard ==
  /\ pc = "entries" /\ entriesLeft > 0
  /\ \E e \in TitledEntries :
       /\ ~Seen(EntryId[e])
       /\ ~AboveThreshold(EntrySeverity(e, src))
       /\ runTitles' = runTitles \cup {e.title}
       /\ lastStep' = EntryStep("discard", e, EntrySeverity(e, src))
  /\ entriesLeft' = entriesLeft - 1
  /\ lastCall' = NoCall
  /\ UNCHANGED <<pc, src, new_event_counter, events, pending, location_cache,
                 now, ticks, returned, runAccepted, runFailed>>
  /\ UNCHANGED <<clusterVars, sevVars>>

\* an entry that passes the threshold: extract_location gives loc_name,
\* get_coordinates is called (the geocoder would answer geo), then the
\* CrisisEvent is built and added. A commit inside get_coordinates commits
\* the events added before. An exception out of get_coordinates, or the
\* missing link of the entry (entry.link raises), ends the source after the
\* effects of get_coordinates.
Accept ==
  /\ pc = "entries" /\ entriesLeft > 0
  /\ \E e \in TitledEntries, loc_name \in LocationNames, geo \in GeoOutcomes :
       LET g == get_coordinates(location_cache, loc_name, geo)
           committed == IF g.commit THEN events \cup pending ELSE events
           uncommitted == IF g.commit THEN {} ELSE pending
       IN /\ ~Seen(EntryId[e])
          /\ AboveThreshold(EntrySeverity(e, src))
          /\ location_cache' = g.cache
          /\ lastCall' = CallRecord(location_cache, loc_name, g)
          /\ events' = committed
          /\ runTitles' = runTitles \cup {e.title}
          /\ IF g.raised \/ "link" \notin e.attrs
               THEN /\ SourceFailed
                    /\ pending' = uncommitted
                    /\ lastStep' = EntryStep("raise", e, EntrySeverity(e, src))
                    /\ UNCHANGED <<new_event_counter, runAccepted>>
               ELSE /\ pending' = uncommitted
                                    \cup {NewEvent(e, src, loc_name, g.latitude, g.longitude)}
                    /\ new_event_counter' = new_event_counter + 1
                    /\ runAccepted' = runAccepted \cup {EntryId[e]}
                    /\ entriesLeft' = entriesLeft - 1
                    /\ lastStep' = EntryStep("accept", e, EntrySeverity(e, src))
                    /\ UNCHANGED <<pc, src, runFailed>>
  /\ UNCHANGED <<now, ticks, returned>>
  /\ UNCHANGED <<clusterVars, sevVars>>

\* after the last source: commit, cleanup_old_events(days=30), return
FinishRun ==
  /\ pc = "fetch" /\ src > Len(Sources)
  /\ events' = AfterCleanup(events \cup pending, RetentionDays)
  /\ pending' = {}
  /\ returned' = new_event_counter
  /\ pc' = "idle" /\ src' = 0
  /\ lastCall' = NoCall /\ lastStep' = PlainStep("finish", src)
  /\ UNCHANGED <<entriesLeft, new_event_counter, location_cache, now, ticks,
                 runTitles, runAccepted, runFailed>>
  /\ UNCHANGED <<clusterVars, sevVars>>

\* time passes between two runs
Tick ==
  /\ pc = "idle" /\ ticks < MaxTicks
  /\ now' = now + TickDays
  /\ ticks' = ticks + 1
  /\ runTitles' = {} /\ runAccepted' = {} /\ runFailed' = FALSE
  /\ lastCall' = NoCall /\ lastStep' = PlainStep("tick", 0)
  /\ UNCHANGED <<pc, src, entriesLeft, new_event_counter, events, pending,
                 location_cache, returned>>
  /\ UNCHANGED <<clusterVars, sevVars>>

\* get_coordinates called on its own, between two runs
CallGetCoordinates ==
  /\ pc = "idle"
  /\ \E location_name \in CallNames, geo \in GeoOutcomes :
       LET g == get_coordinates(location_cache, location_name, geo)
       IN /\ location_cache' = g.cache
          /\ lastCall' = CallRecord(location_cache, location_name, g)
  /\ runTitles' = {} /\ runAccepted' = {} /\ runFailed' = FALSE
  /\ lastStep' = PlainStep("call", 0)
  /\ UNCHANGED <<pc, src, entriesLeft, new_event_counter, events, pending, now,
                 ticks, returned>>
  /\ UNCHANGED <<clusterVars, sevVars>>

-----------------------------------------------------------------------------
(* clustering.py                                                           *)

CORE_EVENT_KEYWORDS ==
  { <<"p","l","a","n","e"," ","c","r","a","s","h">>, <<"a","i","r","c","r","a","f","t"," ","c","r","a","s","h">>, <<"e","a","r","t","h","q","u","a","k","e">>, <<"f","l","o","o","d">>,
    <<"e","x","p","l","o","s","i","o","n">>, <<"w","i","l","d","f","i","r","e">>, <<"h","u","r","r","i","c","a","n","e">>, <<"p","a","n","d","e","m","i","c">> }

\* min_kw_sim = 0.4, as the fraction MinKwSimNum / MinKwSimDen
MinKwSimNum == 4
MinKwSimDen == 10
\* max_time_diff = timedelta(hours=1), in minutes
MaxTimeDiff == 60

\* jaccard(a, b): the quotient len(a & b) / len(a | b) as [num, den], 0.0
\* when either set is empty
jaccard(a, b) ==
  IF a = {} \/ b = {} THEN [num |-> 0, den |-> 1]
  ELSE [num |-> Cardinality(a \cap b), den |-> Cardinality(a \cup b)]

\* titles_share_event comparing the titles as written, without lower()
titles_share_event_cased(e1, e2) ==
  LET shared_core == (e1.EventKeywords \cap e2.EventKeywords) \cap CORE_EVENT_KEYWORDS
  IN \E kw \in shared_core : Contains(e1.Title, kw) /\ Contains(e2.Title, kw)

\* titles_share_event(e1, e2)
titles_share_event(e1, e2) ==
  LET t1 == lower(e1.Title)
      t2 == lower(e2.Title)
      shared == e1.EventKeywords \cap e2.EventKeywords
      shared_core == shared \cap CORE_EVENT_KEYWORDS
  IN \E kw \in shared_core : Contains(t1, kw) /\ Contains(t2, kw)

\* abs(e1["Published"] - e2["Published"])
AbsDiff(x, y) == IF x >= y THEN x - y ELSE y - x

\* is_same_event(e1, e2) with the default min_kw_sim and max_time_diff
is_same_event(e1, e2) ==
  IF /\ e1.Location # "Unknown" /\ e2.Location # "Unknown"
     /\ e1.Location # e2.Location
     /\ ~titles_share_event(e1, e2)
    THEN FALSE
  ELSE IF e1.Category # e2.Category
    THEN FALSE
  ELSE LET kw_sim == jaccard(e1.EventKeywords, e2.EventKeywords)
       IN IF kw_sim.num * MinKwSimDen < MinKwSimNum * kw_sim.den
            THEN FALSE
          ELSE IF AbsDiff(e1.Published, e2.Published) > MaxTimeDiff
            THEN FALSE
          ELSE TRUE

RECURSIVE FirstMatch(_, _, _)
\* the inner loop of cluster_events from cluster i on: the index of the
\* cluster at which it breaks, 0 when it ends without placing the row
FirstMatch(cs, row, i) ==
  IF i > Len(cs) THEN 0
  ELSE IF is_same_event(row, cs[i][1]) THEN i
  ELSE FirstMatch(cs, row, i + 1)

\* the body of the outer loop without the break: the row is appended to
\* every cluster whose first member matches
PlaceNoBreak(cs, row) ==
  IF \A i \in 1..Len(cs) : ~is_same_event(row, cs[i][1])
    THEN Append(cs, <<row>>)
    ELSE [i \in 1..Len(cs) |->
            IF is_same_event(row, cs[i][1]) THEN Append(cs[i], row) ELSE cs[i]]

\* the body of the outer loop with placed never set: always a new cluster
PlaceAlwaysNew(cs, row) == Append(cs, <<row>>)

\* the body of the outer loop without the test of placed: the row also
\* opens a new cluster when it was appended to one
PlaceAlsoNew(cs, row) ==
  LET k == FirstMatch(cs, row, 1)
  IN IF k = 0 THEN Append(cs, <<row>>)
     ELSE Append([cs EXCEPT ![k] = Append(@, row)], <<row>>)

\* the body of the outer loop of cluster_events for one row
Place(cs, row) ==
  LET k == FirstMatch(cs, row, 1)
  IN IF k = 0 THEN Append(cs, <<row>>)
     ELSE [cs EXCEPT ![k] = Append(@, row)]

RECURSIVE ClusterFrom(_, _, _)
ClusterFrom(cs, df, i) ==
  IF i > Len(df) THEN cs ELSE ClusterFrom(Place(cs, df[i]), df, i + 1)

\* cluster_events(df): the clusters of the rows of df
cluster_events(df) == ClusterFrom(<<>>, df, 1)

\* the rows the model clusters
Reports ==
  { [Title |-> <<"M","a","g","n","i","t","u","d","e"," ","7"," ","e","a","r","t","h","q","u","a","k","e"," ","h","i","t","s"," ","J","a","p","a","n">>, Location |-> "Japan",
     Category |-> "Earthquake", EventKeywords |-> { <<"e","a","r","t","h","q","u","a","k","e">> },
     Published |-> 0, Severity |-> 1000, Link |-> "http://r/1"],
    [Title |-> <<"J","a","p","a","n"," ","e","a","r","t","h","q","u","a","k","e"," ","l","e","a","v","e","s"," ","d","o","z","e","n","s"," ","d","e","a","d">>, Location |-> "Japan",
     Category |-> "Earthquake", EventKeywords |-> { <<"e","a","r","t","h","q","u","a","k","e">> },
     Published |-> 10, Severity |-> 1300, Link |-> "http://r/2"],
    [Title |-> <<"E","a","r","t","h","q","u","a","k","e"," ","s","h","a","k","e","s"," ","T","o","k","y","o">>, Location |-> "Tokyo",
     Category |-> "Earthquake", EventKeywords |-> { <<"e","a","r","t","h","q","u","a","k","e">> },
     Published |-> 110, Severity |-> 800, Link |-> "http://r/3"],
    [Title |-> <<"O","s","a","k","a"," ","e","a","r","t","h","q","u","a","k","e"," ","d","a","m","a","g","e">>, Location |-> "Osaka",
     Category |-> "Earthquake", EventKeywords |-> { <<"e","a","r","t","h","q","u","a","k","e">> },
     Published |-> 60, Severity |-> 900, Link |-> "http://r/4"],
    [Title |-> <<"T","r","e","m","o","r"," ","f","e","l","t"," ","i","n"," ","O","s","a","k","a">>, Location |-> "Osaka",
     Category |-> "Earthquake", EventKeywords |-> { <<"e","a","r","t","h","q","u","a","k","e">>, <<"t","r","e","m","o","r">> },
     Published |-> 10, Severity |-> 600, Link |-> "http://r/5"],
    [Title |-> <<"T","o","k","y","o"," ","t","r","e","m","o","r"," ","a","n","d"," ","a","f","t","e","r","s","h","o","c","k">>, Location |-> "Tokyo",
     Category |-> "Earthquake",
     EventKeywords |-> { <<"e","a","r","t","h","q","u","a","k","e">>, <<"t","r","e","m","o","r">>, <<"a","f","t","e","r","s","h","o","c","k">> },
     Published |-> 20, Severity |-> 700, Link |-> "http://r/6"],
    [Title |-> <<"S","e","i","s","m","i","c"," ","t","r","e","m","o","r"," ","o","f"," ","m","a","g","n","i","t","u","d","e"," ","6">>, Location |-> "Unknown",
     Category |-> "Earthquake",
     EventKeywords |-> { <<"e","a","r","t","h","q","u","a","k","e">>, <<"t","r","e","m","o","r">>, <<"s","e","i","s","m","i","c">>, <<"m","a","g","n","i","t","u","d","e">> },
     Published |-> 30, Severity |-> 500, Link |-> "http://r/7"],
    [Title |-> <<"F","l","o","o","d"," ","a","n","d"," ","e","a","r","t","h","q","u","a","k","e"," ","i","n"," ","T","o","k","y","o">>, Location |-> "Tokyo",
     Category |-> "Flood", EventKeywords |-> { <<"f","l","o","o","d">>, <<"e","a","r","t","h","q","u","a","k","e">> },
     Published |-> 20, Severity |-> 1500, Link |-> "http://r/8"],
    [Title |-> <<"U","n","r","e","s","t"," ","i","n"," ","T","o","k","y","o">>, Location |-> "Tokyo",
     Category |-> "General", EventKeywords |-> {},
     Published |-> 0, Severity |-> 450, Link |-> "http://r/9"] }

ClusterInputs == UNION {[1..n -> Reports] : n \in 0..MaxReports}

ClusterIdle ==
  /\ rows = <<>> /\ ri = 1 /\ clusters = <<>>
  /\ clusterPc = "loop" /\ clustered_df = <<>>

ClusterInit ==
  /\ rows \in ClusterInputs
  /\ ri = 1
  /\ clusters = <<>>
  /\ clusterPc = "loop"
  /\ clustered_df = <<>>

\* one iteration of the outer loop of cluster_events
ClusterStep ==
  /\ ri <= Len(rows)
  /\ clusters' = Place(clusters, rows[ri])
  /\ ri' = ri + 1
  /\ UNCHANGED <<rows, clusterPc, clustered_df, scanVars, sevVars>>

\* cluster_events has returned
ClusterDone == ri > Len(rows)

\* max(...) and min(...) of a non-empty set of numbers
Max(S) == CHOOSE x \in S : \A y \in S : y <= x
Min(S) == CHOOSE x \in S : \A y \in S : x <= y

\* the overview row build_clustered_df makes of cluster number i (EventID
\* counts from 0); Keywords is list(set(...)), kept as the set
OverviewRow(i, cluster) ==
  [EventID |-> i - 1,
   Title |-> cluster[1].Title,
   Location |-> cluster[1].Location,
   Category |-> cluster[1].Category,
   MaxSeverity |-> Max({cluster[j].Severity : j \in 1..Len(cluster)}),
   FirstSeen |-> Min({cluster[j].Published : j \in 1..Len(cluster)}),
   LastSeen |-> Max({cluster[j].Published : j \in 1..Len(cluster)}),
   N_reports |-> Len(cluster),
   Titles |-> [j \in 1..Len(cluster) |-> cluster[j].Title],
   Links |-> [j \in 1..Len(cluster) |-> cluster[j].Link],
   Keywords |-> UNION {cluster[j].EventKeywords : j \in 1..Len(cluster)}]

build_clustered_df(cs) == [i \in 1..Len(cs) |-> OverviewRow(i, cs[i])]

\* the dashboard builds the overview of the clusters cluster_events returned
BuildClusteredDf ==
  /\ ClusterDone
  /\ clusterPc = "loop"
  /\ clustered_df' = build_clustered_df(clusters)
  /\ clusterPc' = "built"
  /\ UNCHANGED <<rows, ri, clusters, scanVars, sevVars>>

-----------------------------------------------------------------------------
(* compute_severity as a state machine: one call on bounded arguments.     *)

\* counts written before the term, a non-numeric one and a five-digit one
SevNums == { <<"3">>, <<"4">>, <<"5">>, <<"1","9">>, <<"2","0">>, <<"5","0">>, <<"9","9">>, <<"1","0","0">>, <<"1","5","0">>,
             <<"a","b","c">>, <<"1","0","0","0","5">> }
SevSeps == { <<>>, <<" ">> }
SevWords == { <<"k","i","l","l","e","d">>, <<"p","e","o","p","l","e">> }
SevPhrases == {n \o s \o w : n \in SevNums, s \in SevSeps, w \in SevWords}

RECURSIVE JoinPhrases(_)
\* the phrases of a text, separated by one space
JoinPhrases(ps) ==
  IF ps = <<>> THEN <<>>
  ELSE IF Len(ps) = 1 THEN ps[1]
  ELSE ps[1] \o <<" ">> \o JoinPhrases(Tail(ps))

SevTexts ==
  {JoinPhrases(ps) : ps \in UNION {[1..n -> SevPhrases] : n \in 0..MaxPhrases}}
SevTitles == { <<>>, <<"E","a","r","t","h","q","u","a","k","e">> }
SevWeightsUsed == {RSS_FEEDS[i].weight : i \in {1, 5}}

SevIdle ==
  /\ sevDone = FALSE /\ sevCasualty = 0 /\ sevResult = 0

SevInit ==
  /\ sevTitle \in SevTitles
  /\ sevText \in SevTexts
  /\ sevWeight \in SevWeightsUsed
  /\ SevIdle

\* one call of compute_severity(sevTitle, sevText, sevWeight)
SevCompute ==
  /\ sevDone = FALSE
  /\ sevDone' = TRUE
  /\ sevCasualty' = CasualtyScore(lower(sevText))
  /\ sevResult' = compute_severity(sevTitle, sevText, sevWeight)
  /\ UNCHANGED <<sevTitle, sevText, sevWeight, scanVars, clusterVars>>

-----------------------------------------------------------------------------
(* Claims about the ingestion pipeline (specification Spec).               *)

\* the step just taken iterated an entry that has a title
OnEntry == lastStep.op \in {"skip", "discard", "accept"} \/ (lastStep.op = "raise" /\ lastStep.title # <<>>)

\* C1 (as amended): at most one Report per title is ever stored; an entry is
\* added only when no Report of its title is stored, and then the Report
\* stored under that title is this entry; an entry whose title is stored
\* already is skipped whatever its body. An entry that was discarded or
\* that failed does not block a later entry of the same title.
C1_OneReportPerTitle ==
  /\ \A r1, r2 \in Stored : r1.title = r2.title => r1 = r2
  /\ \A r1, r2 \in Stored : r1.id = r2.id => r1 = r2
  /\ lastStep.op = "accept" =>
       /\ ~lastStep.wasStored
       /\ \E r \in Stored : r.title = lastStep.title /\ r.link = lastStep.link
  /\ (OnEntry /\ lastStep.wasStored) => lastStep.op = "skip"
  /\ lastStep.op = "finish" =>
       \A i \in runAccepted : Cardinality({r \in events : r.id = i}) = 1

\* C1 witness: in one run an entry was added and a later entry of the same
\* title is skipped
C1_Witness ==
  /\ lastStep.op = "skip"
  /\ lastStep.seenInRun
  /\ _generate_id(lastStep.title) \in runAccepted

\* C1 as claimed: the second entry of a title in a run is never the one
\* stored, and a Report of that title (the first entry) is stored
C1_FirstEntryKept ==
  lastStep.seenInRun =>
    /\ lastStep.op # "accept"
    /\ \E r \in Stored : r.title = lastStep.title

\* C2: every stored Report has a severity above the ingestion threshold, and
\* an entry is added only with such a severity
C2_StoredAboveThreshold ==
  /\ \A r \in Stored : r.severity_score > ANALYZER_SEVERITY_THRESHOLD
  /\ lastStep.op = "accept" => lastStep.severity > ANALYZER_SEVERITY_THRESHOLD
  /\ (lastStep.op = "discard") =>
       /\ lastStep.severity <= ANALYZER_SEVERITY_THRESHOLD
       /\ ~\E r \in Stored : r.link = lastStep.link

\* C2 witness: an entry whose severity is the threshold itself was discarded
\* while a Report is stored
C2_Witness ==
  /\ lastStep.op = "discard"
  /\ lastStep.severity = ANALYZER_SEVERITY_THRESHOLD
  /\ Stored # {}

\* C3: an exception in a source leaves the run going with the next source;
\* the run ends after the last source with everything committed, the
\* Reports added in the run stored, and their count returned
C3_SourceFailureIsolated ==
  /\ lastStep.op = "raise" =>
       /\ pc = "fetch"
       /\ src = lastStep.src + 1
       /\ src <= Len(Sources) + 1
  /\ runFailed => (pc \in {"fetch", "entries"} \/ lastStep.op = "finish")
  /\ lastStep.op = "finish" =>
       /\ lastStep.src = Len(Sources) + 1
       /\ pc = "idle"
       /\ pending = {}
       /\ \A i \in runAccepted : \E r \in events : r.id = i
       /\ returned = Cardinality(runAccepted)

\* C3 witness: a run in which a source raised has ended, and returned the
\* count of the Reports it added
C3_Witness ==
  /\ lastStep.op = "finish"
  /\ runFailed
  /\ returned >= 1
  /\ \A i \in runAccepted : \E r \in events : r.id = i

\* the latest get_coordinates call asked the geocoder, which failed
GeocoderFailed == lastCall.called /\ lastCall.result.geo.kind \in {"timeout", "error"}

\* C4: get_coordinates never raises; when the geocoder times out or fails it
\* returns (None, None) and leaves the cache alone, and the entry is stored
\* with its location name and no coordinates, the loop going on
C4_GeocoderFailureDegrades ==
  /\ lastCall.called => ~lastCall.result.raised
  /\ GeocoderFailed =>
       /\ lastCall.result.latitude = None
       /\ lastCall.result.longitude = None
       /\ location_cache = lastCall.before
  /\ (GeocoderFailed /\ lastStep.op \in {"accept", "raise"} /\ lastStep.link # "") =>
       /\ lastStep.op = "accept"
       /\ pc = "entries"
       /\ \E r \in Stored :
            /\ r.title = lastStep.title /\ r.link = lastStep.link
            /\ r.location = lastCall.name
            /\ r.latitude = None /\ r.longitude = None

\* C4 witness: the geocoder timed out for "Japan" and the entry is stored
\* without coordinates
C4_Witness ==
  /\ lastStep.op = "accept"
  /\ lastCall.called /\ lastCall.name = "Japan"
  /\ lastCall.result.geo.kind = "timeout"
  /\ \E r \in Stored : r.link = lastStep.link /\ r.location = "Japan" /\ r.latitude = None

\* C5: a stored Report located "Unknown" has no coordinates, and
\* get_coordinates of "Unknown" or '' returns (None, None) without a cache
\* query, a cache write or a geocoder call
C5_UnknownHasNoCoordinates ==
  /\ \A r \in Stored :
       r.location = "Unknown" => (r.latitude = None /\ r.longitude = None)
  /\ (lastCall.called /\ lastCall.name \in {"Unknown", ""}) =>
       /\ lastCall.result.latitude = None
       /\ lastCall.result.longitude = None
       /\ ~lastCall.result.read
       /\ lastCall.result.geo = NotCalled
       /\ ~lastCall.result.commit
       /\ location_cache = lastCall.before

\* C5 witness: an entry located "Unknown" was added while the cache holds a row
C5_Witness ==
  /\ lastStep.op = "accept"
  /\ lastCall.called /\ lastCall.name = "Unknown"
  /\ location_cache # {}
  /\ \E r \in Stored : r.link = lastStep.link /\ r.location = "Unknown"

\* C6: the cache holds one row per name and a call never changes or removes a
\* row; a name that has a row (of exactly that name) gets the row's
\* coordinates without a geocoder call, any other name but "Unknown" and ''
\* is given to the geocoder; a row is added only for a name without row
\* after the geocoder answered, and it holds the answer
C6_CacheAppendOnly ==
  /\ \A c1, c2 \in location_cache : c1.name = c2.name => c1 = c2
  /\ lastCall.called =>
       /\ lastCall.before \subseteq location_cache
       /\ (/\ lastCall.name \notin {"Unknown", ""}
           /\ ~\E c \in lastCall.before : c.name = lastCall.name) =>
             lastCall.result.geo \in GeoOutcomes
       /\ \A c \in lastCall.before :
            c.name = lastCall.name =>
              /\ lastCall.result.latitude = c.latitude
              /\ lastCall.result.longitude = c.longitude
              /\ lastCall.result.geo = NotCalled
              /\ location_cache = lastCall.before
       /\ location_cache # lastCall.before =>
            /\ ~\E c \in lastCall.before : c.name = lastCall.name
            /\ lastCall.result.geo.kind = "ok"
            /\ location_cache = lastCall.before \cup
                 {[name |-> lastCall.name, latitude |-> lastCall.result.geo.latitude,
                   longitude |-> lastCall.result.geo.longitude]}

\* C6 witness: an entry was added with the coordinates of a cache row
C6_Witness ==
  /\ lastStep.op = "accept"
  /\ lastCall.called
  /\ \E c \in lastCall.before :
       /\ c.name = lastCall.name
       /\ \E r \in Stored : r.link = lastStep.link /\ r.latitude = c.latitude

-----------------------------------------------------------------------------
(* Claims about clustering (specification SpecCluster).                    *)

\* the four gates as the claim words them
LocationGate(a, b) ==
  \/ a.Location = "Unknown" \/ b.Location = "Unknown"
  \/ a.Location = b.Location
  \/ \E kw \in CORE_EVENT_KEYWORDS :
       /\ kw \in a.EventKeywords /\ kw \in b.EventKeywords
       /\ Contains(lower(a.Title), lower(kw)) /\ Contains(lower(b.Title), lower(kw))
CategoryGate(a, b) == a.Category = b.Category
KeywordGate(a, b) ==
  /\ a.EventKeywords # {} /\ b.EventKeywords # {}
  /\ 10 * Cardinality(a.EventKeywords \cap b.EventKeywords)
       >= 4 * Cardinality(a.EventKeywords \cup b.EventKeywords)
TimeGate(a, b) ==
  /\ a.Published - b.Published <= 60
  /\ b.Published - a.Published <= 60
\* the scenario of the claim: two Earthquake reports, keywords {earthquake},
\* ten minutes apart
QuakePair(a, b) ==
  /\ a.Category = "Earthquake" /\ b.Category = "Earthquake"
  /\ a.EventKeywords = { <<"e","a","r","t","h","q","u","a","k","e">> } /\ b.EventKeywords = { <<"e","a","r","t","h","q","u","a","k","e">> }
  /\ AbsDiff(a.Published, b.Published) = 10

\* C7: on every pair of rows is_same_event is the conjunction of the four
\* gates, and a QuakePair is the same event when located in the same place
\* and when "earthquake" is in both titles
C7_SameEventIsFourGates ==
  \A i, j \in 1..Len(rows) :
    LET a == rows[i]
        b == rows[j]
    IN /\ is_same_event(a, b) <=>
            (LocationGate(a, b) /\ CategoryGate(a, b) /\ KeywordGate(a, b) /\ TimeGate(a, b))
       /\ (QuakePair(a, b) /\ a.Location = b.Location) => is_same_event(a, b)
       /\ (/\ QuakePair(a, b)
           /\ Contains(lower(a.Title), <<"e","a","r","t","h","q","u","a","k","e">>)
           /\ Contains(lower(b.Title), <<"e","a","r","t","h","q","u","a","k","e">>)) => is_same_event(a, b)

\* C7 witness: cluster_events put a row located elsewhere than the known
\* location of the cluster's first row into that cluster
C7_Witness ==
  /\ ClusterDone
  /\ \E k \in 1..Len(clusters) :
       /\ Len(clusters[k]) >= 2
       /\ clusters[k][1].Location \notin {"Unknown", clusters[k][2].Location}
       /\ clusters[k][2].Location # "Unknown"

\* C8: an iteration of cluster_events appends the row to the first cluster,
\* in creation order, whose first member is the same event as the row, and
\* to no other; when there is none it appends a new cluster holding the row
C8_FirstFit ==
  [][ri' = ri + 1 =>
       LET row == rows[ri]
           M == {i \in 1..Len(clusters) : is_same_event(row, clusters[i][1])}
       IN IF M = {}
            THEN clusters' = Append(clusters, <<row>>)
            ELSE \E k \in M :
                   /\ \A m \in M : k <= m
                   /\ clusters' = [clusters EXCEPT ![k] = Append(@, row)]]_vars

\* C8 witness: the third row matches the first members of both clusters and
\* sits in the first
C8_Witness ==
  /\ ClusterDone
  /\ Len(rows) = 3 /\ Len(clusters) = 2
  /\ is_same_event(rows[3], clusters[1][1])
  /\ is_same_event(rows[3], clusters[2][1])
  /\ clusters[1] = <<rows[1], rows[3]>>
  /\ clusters[2] = <<rows[2]>>

\* the third row is the same event as the first and as the second, which
\* are not the same event
Borderline ==
  /\ Len(rows) = 3
  /\ is_same_event(rows[3], rows[1])
  /\ is_same_event(rows[3], rows[2])
  /\ ~is_same_event(rows[2], rows[1])

\* C9: on a borderline input cluster_events returns two clusters, and one
\* cluster on the same rows with the third row moved to the front
C9_OrderDependent ==
  (ClusterDone /\ Borderline) =>
    /\ Len(clusters) = 2
    /\ Len(cluster_events(<<rows[3], rows[1], rows[2]>>)) = 1
    /\ cluster_events(rows) = clusters

\* C9 witness: cluster_events has returned on a borderline input
C9_Witness ==
  /\ ClusterDone /\ Borderline
  /\ Len(clusters) # Len(cluster_events(<<rows[3], rows[1], rows[2]>>))

-----------------------------------------------------------------------------
(* Claims about compute_severity (specification SpecSeverity).             *)

\* what the call adds besides the casualty loop for a text "<count> killed":
\* the weight of "killed", and the title bonus for the title "Earthquake"
KilledBase == 3 + (IF sevTitle = <<"E","a","r","t","h","q","u","a","k","e">> THEN 2 ELSE 0)

\* C10 (as amended): the casualty loop adds 8 for "150 killed", 5 for
\* "50 killed", 0 for "3 killed" (3 is below the lowest range, which starts
\* at 5) and 0 for "abc killed", and the call returns in each case
C10_CasualtyExamples ==
  /\ (sevDone /\ sevText = <<"1","5","0"," ","k","i","l","l","e","d">>) =>
       (sevCasualty = 8 /\ sevResult = (KilledBase + 8) * sevWeight)
  /\ (sevDone /\ sevText = <<"5","0"," ","k","i","l","l","e","d">>) =>
       (sevCasualty = 5 /\ sevResult = (KilledBase + 5) * sevWeight)
  /\ (sevDone /\ sevText = <<"3"," ","k","i","l","l","e","d">>) =>
       (sevCasualty = 0 /\ sevResult = KilledBase * sevWeight)
  /\ (sevDone /\ sevText = <<"a","b","c"," ","k","i","l","l","e","d">>) =>
       /\ sevCasualty = 0 /\ sevResult = KilledBase * sevWeight
       /\ victims_match(lower(sevText)) = <<>>

\* C10 witness: the call has returned for "3 killed" with nothing added
C10_Witness ==
  /\ sevDone
  /\ sevText = <<"3"," ","k","i","l","l","e","d">>
  /\ sevCasualty = 0

\* C10 as claimed: 8 for "150 killed", 5 for "50 killed", 3 for "3 killed",
\* 0 for "abc killed"
C10_AsClaimed ==
  /\ (sevDone /\ sevText = <<"1","5","0"," ","k","i","l","l","e","d">>) => sevCasualty = 8
  /\ (sevDone /\ sevText = <<"5","0"," ","k","i","l","l","e","d">>) => sevCasualty = 5
  /\ (sevDone /\ sevText = <<"3"," ","k","i","l","l","e","d">>) => sevCasualty = 3
  /\ (sevDone /\ sevText = <<"a","b","c"," ","k","i","l","l","e","d">>) => sevCasualty = 0

RECURSIVE DigitRunEnd(_, _)
\* the position after the run of digits that starts at p
DigitRunEnd(text, p) ==
  IF p <= Len(text) /\ IsDigit(text[p]) THEN DigitRunEnd(text, p + 1) ELSE p

\* the integers written in text before a casualty term: each whole run of
\* digits that a casualty term follows, whitespace allowed in between
WrittenCounts(text) ==
  LET starts == {p \in 1..Len(text) :
                   /\ IsDigit(text[p])
                   /\ (p = 1 \/ ~IsDigit(text[p - 1]))
                   /\ \E a \in 1..Len(CasualtyTerms) :
                        StartsAt(text, SkipSpaces(text, DigitRunEnd(text, p)), CasualtyTerms[a])}
  IN [p \in starts |-> int(SubSeq(text, p, DigitRunEnd(text, p) - 1))]

\* the range table of the claim applied to N
RangeDelta(N) ==
  IF N >= 100 THEN 8
  ELSE IF 20 <= N /\ N < 100 THEN 5
  ELSE IF 5 <= N /\ N < 20 THEN 3
  ELSE 0

RECURSIVE SumOver(_, _)
SumOver(f, S) ==
  IF S = {} THEN 0
  ELSE LET x == CHOOSE y \in S : TRUE IN f[x] + SumOver(f, S \ {x})

\* the sum of the claim's deltas over the integers written in text
WrittenDeltaSum(text) ==
  LET ns == WrittenCounts(text)
  IN SumOver([p \in DOMAIN ns |-> RangeDelta(ns[p])], DOMAIN ns)

\* C11: for every integer N written before a casualty term the call adds the
\* range-table delta of N itself, and several matches add the sum of their
\* deltas
C11_DeltaOfWrittenNumber ==
  sevDone =>
    /\ sevCasualty = WrittenDeltaSum(lower(sevText))
    /\ sevResult = (RawScore(sevTitle, sevText) - CasualtyScore(lower(sevText))
                      + WrittenDeltaSum(lower(sevText))) * sevWeight

\* C11, the counts of at most four digits: the sum of the deltas is added
C11_UpToFourDigits ==
  (sevDone /\ \A p \in 1..Len(sevText) : DigitRunEnd(sevText, p) - p <= 4) =>
    sevCasualty = WrittenDeltaSum(lower(sevText))

\* C11: the call has returned for a text with two counted phrases
C11_TwoCounts ==
  /\ sevDone
  /\ sevText = <<"1","5","0"," ","k","i","l","l","e","d"," ","5","0"," ","k","i","l","l","e","d">>
  /\ sevCasualty = 13

\* the places of the clusters: <<i, j>> is member j of cluster i
Slots ==
  UNION {{<<i, j>> : j \in 1..Len(clusters[i])} : i \in 1..Len(clusters)}

\* the members of the clusters are the first n input rows, each exactly once
\* and in input order inside its cluster: some one-to-one assignment of the
\* places to the positions 1..n says so
PartitionOf(n) ==
  /\ Cardinality(Slots) = n
  /\ \E f \in [Slots -> 1..n] :
       /\ \A s, t \in Slots : s # t => f[s] # f[t]
       /\ \A s \in Slots : clusters[s[1]][s[2]] = rows[f[s]]
       /\ \A s, t \in Slots : (s[1] = t[1] /\ s[2] < t[2]) => f[s] < f[t]

\* C12: the clusters of cluster_events partition the rows read so far (all
\* the input once it has returned): no cluster is empty, every row is a
\* member of exactly one cluster, members keep their input order, and the
\* N_reports of the overview build_clustered_df returns sum to the number
\* of input rows
C12_ClustersPartitionInput ==
  /\ \A i \in 1..Len(clusters) : clusters[i] # <<>>
  /\ PartitionOf(ri - 1)
  /\ clusterPc = "built" =>
       /\ Len(clustered_df) = Len(clusters)
       /\ \A i \in 1..Len(clusters) : clustered_df[i].N_reports = Len(clusters[i])
       /\ SumSeq([i \in 1..Len(clustered_df) |-> clustered_df[i].N_reports]) = Len(rows)

\* C12 witness: three rows, the first given twice, in two clusters, one of
\* two members, and the overview built
C12_Witness ==
  /\ clusterPc = "built"
  /\ Len(rows) = 3 /\ rows[1] = rows[3] /\ rows[1] # rows[2]
  /\ clusters = << <<rows[1], rows[3]>>, <<rows[2]>> >>
  /\ clustered_df[1].N_reports = 2 /\ clustered_df[2].N_reports = 1

-----------------------------------------------------------------------------
(* The specifications.                                                     *)

SevFixed ==
  /\ sevTitle = <<>> /\ sevText = <<>> /\ sevWeight = 100
  /\ SevIdle

\* the ingestion pipeline
Init == ScanInit /\ ClusterIdle /\ SevFixed
Next ==
  \/ StartRun \/ FetchFeed \/ FetchRaises \/ NextSource
  \/ EntryRaises \/ SkipSeen \/ Discard \/ Accept
  \/ FinishRun \/ Tick \/ CallGetCoordinates
Spec == Init /\ [][Next]_vars

\* cluster_events and build_clustered_df on a bounded DataFrame
InitCluster == ScanInit /\ ClusterInit /\ SevFixed
NextCluster == ClusterStep \/ BuildClusteredDf
SpecCluster == InitCluster /\ [][NextCluster]_vars

\* compute_severity on bounded arguments
InitSeverity == ScanInit /\ ClusterIdle /\ SevInit
NextSeverity == SevCompute
SpecSeverity == InitSeverity /\ [][NextSeverity]_vars

=============================================================================
